---- MODULE Spec2Model ----
(***************************************************************************)
(* Model of the developer-tooling scripts of soliplex/flutter:             *)
(*   tool/check_coverage.py    parse_lcov and main (coverage threshold)    *)
(*   tool/analyze_packages.py  main (per-package analyzer runner)          *)
(* Text is modelled as sequences of one-character strings, so that         *)
(* str.strip, str.startswith, slicing and int() are computed, not assumed. *)
(***************************************************************************)
EXTENDS Integers, Sequences, FiniteSets, TLC

VARIABLES
    \* ---- tool/check_coverage.py ----
    fileExists,     \* os.path.isfile(path)
    input,          \* the lines of coverage/lcov.info, as "for line in f" yields them
    pc,             \* position of main / parse_lcov
    pos,            \* number of lines the loop of parse_lcov has taken from f
    handle,         \* the file object of the with-statement
    opens,          \* how many times open() has been called
    total_found, total_hit, per_file,
    current_file, file_found, file_hit,
    below,          \* main's list of files below the threshold
    stdout, stderr, \* what main has printed
    exitCode,       \* main's return value (NoExit while it runs)
    \* ---- tool/analyze_packages.py ----
    listing,        \* os.listdir(packages_dir), in the order the OS returns it
    pubspec,        \* per entry: what <entry>/pubspec.yaml is
    apc,            \* position of the analyzer's main
    queue,          \* the rest of sorted(os.listdir(...)) still to visit
    invoked,        \* the packages "dart analyze" has been run on, in order
    returncodes,    \* the return code of each of those runs
    failed,         \* main's failed list
    astderr,        \* what the analyzer's main printed to stderr
    aexit           \* the analyzer's main return value

covVars == <<fileExists, input, pc, pos, handle, opens, total_found, total_hit,
             per_file, current_file, file_found, file_hit, below, stdout, stderr,
             exitCode>>
anaVars == <<listing, pubspec, apc, queue, invoked, returncodes, failed, astderr,
             aexit>>
vars == <<covVars, anaVars>>

\* ------------------------------------------------------------------ bounds
MaxParseLen == 3
MaxReportLen == 5
MaxEntries == 3

\* ------------------------------------------------------------- text helpers
BoundedSeq(S, n) == UNION {[1..k -> S] : k \in 0..n}

\* The characters str.strip() / int() treat as whitespace.
IsSpace(c) == c \in {" ", "\t", "\n", "\r", "\f"}

RECURSIVE LStrip(_)
LStrip(s) == IF s # <<>> /\ IsSpace(Head(s)) THEN LStrip(Tail(s)) ELSE s

RECURSIVE RStrip(_)
RStrip(s) ==
    IF s # <<>> /\ IsSpace(s[Len(s)]) THEN RStrip(SubSeq(s, 1, Len(s) - 1)) ELSE s

\* str.strip()
Strip(s) == RStrip(LStrip(s))

\* str.startswith(prefix)
StartsWith(s, prefix) ==
    /\ Len(s) >= Len(prefix)
    /\ SubSeq(s, 1, Len(prefix)) = prefix

\* line[3:]
Payload(s) == SubSeq(s, 4, Len(s))

Digits == {"0", "1", "2", "3", "4", "5", "6", "7", "8", "9"}

DigitVal(c) ==
    CASE c = "0" -> 0 [] c = "1" -> 1 [] c = "2" -> 2 [] c = "3" -> 3
      [] c = "4" -> 4 [] c = "5" -> 5 [] c = "6" -> 6 [] c = "7" -> 7
      [] c = "8" -> 8 [] c = "9" -> 9

RECURSIVE DigitsValue(_, _)
DigitsValue(s, acc) ==
    IF s = <<>> THEN acc
    ELSE IF Head(s) = "_" THEN DigitsValue(Tail(s), acc)
    ELSE DigitsValue(Tail(s), 10 * acc + DigitVal(Head(s)))

\* The digit part of an int() literal: digits, single underscores between digits.
ValidDigits(s) ==
    /\ s # <<>>
    /\ \A i \in 1..Len(s) : s[i] \in Digits \cup {"_"}
    /\ s[1] \in Digits
    /\ s[Len(s)] \in Digits
    /\ \A i \in 1..(Len(s) - 1) : ~(s[i] = "_" /\ s[i + 1] = "_")

\* int(text): surrounding whitespace dropped, an optional sign, then digits.
\* ok = FALSE stands for the ValueError int() raises.
PyInt(s) ==
    LET t == Strip(s)
        signed == t # <<>> /\ t[1] \in {"+", "-"}
        body == IF signed THEN Tail(t) ELSE t
        mag == DigitsValue(body, 0)
    IN  IF ValidDigits(body)
        THEN [ok |-> TRUE, val |-> IF signed /\ t[1] = "-" THEN 0 - mag ELSE mag]
        ELSE [ok |-> FALSE, val |-> 0]

SF == <<"S", "F", ":">>
LF == <<"L", "F", ":">>
LH == <<"L", "H", ":">>
END_OF_RECORD ==
    <<"e", "n", "d", "_", "o", "f", "_", "r", "e", "c", "o", "r", "d">>

\* ------------------------------------------------------------- the inputs
NL == <<"\n">>
LineSFa == SF \o <<"a">> \o NL
LineLF50 == LF \o <<"5", "0">> \o NL
LineLH38 == LH \o <<"3", "8">> \o NL
LineLH39 == LH \o <<"3", "9">> \o NL
LineEOR == END_OF_RECORD \o NL
LineLFneg == LF \o <<"-", "5">> \o NL
LineLHneg == LH \o <<"-", "5">> \o NL
LineLFbad == LF \o <<"x">> \o NL
LineLHempty == LH \o NL
LineLFpadded == <<" ", "\t">> \o LF \o <<"0", "7">> \o <<" ">> \o NL
LineDA == <<"D", "A", ":", "1", ",", "1">> \o NL

\* Every kind of line parse_lcov distinguishes, malformed counts included.
ParseLines ==
    {LineSFa, LineLF50, LineLH39, LineEOR, LineLFneg, LineLHneg, LineLFbad,
     LineLHempty, LineLFpadded, LineDA}

\* Well-formed lines only, for longer reports with several records.
ReportLines == {LineSFa, LineLF50, LineLH38, LineLH39, LineEOR}

Inputs == BoundedSeq(ParseLines, MaxParseLen) \cup BoundedSeq(ReportLines, MaxReportLen)

\* ------------------------------------------------- check_coverage.py: data
MIN_COVERAGE == 78
NoExit == -1

\* n1/d1 < n2/d2 over the rationals (d1, d2 # 0).  The code compares the
\* doubles (hit / found) * 100 and MIN_COVERAGE; for counts of this size the
\* rounded quotient orders as the exact one and k*39/(k*50)*100 is exactly 78.0.
RatLess(n1, d1, n2, d2) ==
    LET a == IF d1 < 0 THEN 0 - n1 ELSE n1
        b == IF d1 < 0 THEN 0 - d1 ELSE d1
        c == IF d2 < 0 THEN 0 - n2 ELSE n2
        d == IF d2 < 0 THEN 0 - d2 ELSE d2
    IN  a * d < c * b

\* The accumulators of parse_lcov as one value.
Acc ==
    [total_found |-> total_found, total_hit |-> total_hit, per_file |-> per_file,
     current_file |-> current_file, file_found |-> file_found,
     file_hit |-> file_hit, raised |-> FALSE]

\* current_file = line[3:]
SetFile(st, line) == [st EXCEPT !.current_file = Payload(line)]

\* file_found = int(line[3:])
SetFound(st, line) ==
    LET r == PyInt(Payload(line))
    IN  IF r.ok THEN [st EXCEPT !.file_found = r.val] ELSE [st EXCEPT !.raised = TRUE]

\* file_hit = int(line[3:])
SetHit(st, line) ==
    LET r == PyInt(Payload(line))
    IN  IF r.ok THEN [st EXCEPT !.file_hit = r.val] ELSE [st EXCEPT !.raised = TRUE]

\* EndRecord without the reset of current_file.
EndRecordNoReset(st) ==
    [st EXCEPT !.total_found = st.total_found + st.file_found,
               !.total_hit = st.total_hit + st.file_hit,
               !.per_file = Append(st.per_file,
                                   <<st.current_file, st.file_hit, st.file_found>>),
               !.file_found = 0,
               !.file_hit = 0]

\* EndRecord adding file_found into total_hit.
EndRecordSwapTotals(st) ==
    [st EXCEPT !.total_found = st.total_found + st.file_found,
               !.total_hit = st.total_hit + st.file_found,
               !.per_file = Append(st.per_file,
                                   <<st.current_file, st.file_hit, st.file_found>>),
               !.current_file = <<>>,
               !.file_found = 0,
               !.file_hit = 0]

\* The end_of_record branch.
EndRecord(st) ==
    [st EXCEPT !.total_found = st.total_found + st.file_found,
               !.total_hit = st.total_hit + st.file_hit,
               !.per_file = Append(st.per_file,
                                   <<st.current_file, st.file_hit, st.file_found>>),
               !.current_file = <<>>,
               !.file_found = 0,
               !.file_hit = 0]

\* The body of "for line in f".
ParseStep(st, rawline) ==
    LET line == Strip(rawline)
    IN  IF StartsWith(line, SF) THEN SetFile(st, line)
        ELSE IF StartsWith(line, LF) THEN SetFound(st, line)
        ELSE IF StartsWith(line, LH) THEN SetHit(st, line)
        ELSE IF line = END_OF_RECORD THEN EndRecord(st)
        ELSE st

\* A file object that an exit from the block leaves as it was.
WithExitLeak(h) == h

\* What leaving the with-block does to the file object, on return and on raise.
WithExit(h) == "closed"

\* A return that first closes a pending, unterminated record.
ReturnFlushed(st) ==
    IF st.current_file # <<>> \/ st.file_found # 0 \/ st.file_hit # 0
    THEN <<st.total_hit + st.file_hit, st.total_found + st.file_found,
           Append(st.per_file, <<st.current_file, st.file_hit, st.file_found>>)>>
    ELSE <<st.total_hit, st.total_found, st.per_file>>

\* return total_hit, total_found, per_file
ReturnValue(st) == <<st.total_hit, st.total_found, st.per_file>>

\* ------------------------------------------------ check_coverage.py: main
\* IsBelow with <= in place of <.
IsBelowInclusive(rec) ==
    rec[3] > 0 /\ ~RatLess(MIN_COVERAGE, 1, rec[2] * 100, rec[3])

\* found > 0 and (hit / found) * 100 < MIN_COVERAGE, for a (name, hit, found).
IsBelow(rec) == rec[3] > 0 /\ RatLess(rec[2] * 100, rec[3], MIN_COVERAGE, 1)

\* The list comprehension that builds below.
FilterBelow(recs) == SelectSeq(recs, IsBelow)

\* key=lambda x: (x[1] / x[2]) if x[2] else 0, as numerator and denominator.
SortKey(rec) == IF rec[3] # 0 THEN <<rec[2], rec[3]>> ELSE <<0, 1>>

KeyLess(x, y) == RatLess(SortKey(x)[1], SortKey(x)[2], SortKey(y)[1], SortKey(y)[2])

\* An insertion that puts x before the elements of equal key.
RECURSIVE InsertSortedUnstable(_, _)
InsertSortedUnstable(s, x) ==
    IF s = <<>> THEN <<x>>
    ELSE IF ~KeyLess(Head(s), x) THEN <<x>> \o s
    ELSE <<Head(s)>> \o InsertSortedUnstable(Tail(s), x)

\* One insertion of list.sort: x goes before the first element with a larger
\* key, hence after every element with an equal key (the sort is stable).
RECURSIVE InsertSorted(_, _)
InsertSorted(s, x) ==
    IF s = <<>> THEN <<x>>
    ELSE IF KeyLess(x, Head(s)) THEN <<x>> \o s
    ELSE <<Head(s)>> \o InsertSorted(Tail(s), x)

\* below.sort(key=...)
RECURSIVE SortBelow(_)
SortBelow(s) ==
    IF s = <<>> THEN <<>>
    ELSE InsertSorted(SortBelow(SubSeq(s, 1, Len(s) - 1)), s[Len(s)])

\* One printed line: what it is and the values formatted into it.
Out(kind, name, hit, found) == [kind |-> kind, name |-> name, hit |-> hit, found |-> found]

\* The "if below:" block: the header, then one line per file, in list order.
BelowLines(bl) ==
    IF bl = <<>> THEN <<>>
    ELSE <<Out("Files below", <<>>, 0, 0)>>
         \o [i \in 1..Len(bl) |-> Out("file", bl[i][1], bl[i][2], bl[i][3])]

\* coverage < MIN_COVERAGE, with coverage = (total_hit / total_found) * 100.
CoverageFails(hit, found) == RatLess(hit * 100, found, MIN_COVERAGE, 1)

\* An empty report printed as 0% coverage.
EmptyReportAsZero ==
    [out |-> <<Out("Overall coverage", <<>>, 0, 0)>>,
     err |-> <<Out("FAILED", <<>>, 0, 0)>>, rc |-> 1]

\* What main prints and returns when total_found == 0.
EmptyReport ==
    [out |-> <<>>, err |-> <<Out("No lines found", <<>>, 0, 0)>>, rc |-> 1]

\* What main prints and returns when the coverage file is missing.
MissingReport ==
    [out |-> <<>>,
     err |-> <<Out("Coverage file not found", <<>>, 0, 0),
               Out("Run flutter test first", <<>>, 0, 0)>>,
     rc |-> 1]

\* ------------------------------------------- check_coverage.py: the actions
CovInit ==
    /\ fileExists \in BOOLEAN
    /\ input \in (IF fileExists THEN Inputs ELSE {<<>>})
    /\ pc = "main"
    /\ pos = 0
    /\ handle = "unopened"
    /\ opens = 0
    /\ total_found = 0 /\ total_hit = 0 /\ per_file = <<>>
    /\ current_file = <<>> /\ file_found = 0 /\ file_hit = 0
    /\ below = <<>>
    /\ stdout = <<>> /\ stderr = <<>>
    /\ exitCode = NoExit

\* main, lines 46-49: the coverage file is not there.
MainMissing ==
    /\ pc = "main"
    /\ ~fileExists
    /\ stdout' = stdout \o MissingReport.out
    /\ stderr' = stderr \o MissingReport.err
    /\ exitCode' = MissingReport.rc
    /\ pc' = "done"
    /\ UNCHANGED anaVars
    /\ UNCHANGED <<fileExists, input, pos, handle, opens, total_found, total_hit,
                   per_file, current_file, file_found, file_hit, below>>

\* main calls parse_lcov: the locals are set and the file is opened.
ParseOpen ==
    /\ pc = "main"
    /\ fileExists
    /\ total_found' = 0 /\ total_hit' = 0 /\ per_file' = <<>>
    /\ current_file' = <<>> /\ file_found' = 0 /\ file_hit' = 0
    /\ handle' = "open"
    /\ opens' = opens + 1
    /\ pc' = "parsing"
    /\ UNCHANGED anaVars
    /\ UNCHANGED <<fileExists, input, pos, below, stdout, stderr, exitCode>>

\* One iteration of "for line in f" that completes.
ParseLine ==
    /\ pc = "parsing"
    /\ handle = "open"
    /\ pos < Len(input)
    /\ LET st == ParseStep(Acc, input[pos + 1])
       IN  /\ ~st.raised
           /\ total_found' = st.total_found
           /\ total_hit' = st.total_hit
           /\ per_file' = st.per_file
           /\ current_file' = st.current_file
           /\ file_found' = st.file_found
           /\ file_hit' = st.file_hit
    /\ pos' = pos + 1
    /\ UNCHANGED anaVars
    /\ UNCHANGED <<fileExists, input, pc, handle, opens, below, stdout, stderr,
                   exitCode>>

\* One iteration in which int() raises ValueError: the with-block is left,
\* nothing catches the exception, and neither parse_lcov nor main returns.
ParseRaise ==
    /\ pc = "parsing"
    /\ handle = "open"
    /\ pos < Len(input)
    /\ ParseStep(Acc, input[pos + 1]).raised
    /\ pos' = pos + 1
    /\ handle' = WithExit(handle)
    /\ pc' = "raised"
    /\ UNCHANGED anaVars
    /\ UNCHANGED <<fileExists, input, opens, total_found, total_hit, per_file,
                   current_file, file_found, file_hit, below, stdout, stderr,
                   exitCode>>

\* The loop is exhausted: the with-block is left and parse_lcov returns to main.
ParseReturn ==
    /\ pc = "parsing"
    /\ handle = "open"
    /\ pos = Len(input)
    /\ handle' = WithExit(handle)
    /\ LET rv == ReturnValue(Acc)
       IN  /\ total_hit' = rv[1]
           /\ total_found' = rv[2]
           /\ per_file' = rv[3]
    /\ pc' = "parsed"
    /\ UNCHANGED anaVars
    /\ UNCHANGED <<fileExists, input, pos, opens, current_file, file_found,
                   file_hit, below, stdout, stderr, exitCode>>

\* main, lines 53-55.
MainEmpty ==
    /\ pc = "parsed"
    /\ total_found = 0
    /\ stdout' = stdout \o EmptyReport.out
    /\ stderr' = stderr \o EmptyReport.err
    /\ exitCode' = EmptyReport.rc
    /\ pc' = "done"
    /\ UNCHANGED anaVars
    /\ UNCHANGED <<fileExists, input, pos, handle, opens, total_found, total_hit,
                   per_file, current_file, file_found, file_hit, below>>

\* main, lines 57-84: the report, then FAILED (1) or PASSED (0).
MainReport ==
    /\ pc = "parsed"
    /\ total_found # 0
    /\ LET bl == SortBelow(FilterBelow(per_file))
           body == BelowLines(bl)
                   \o <<Out("Overall coverage", <<>>, total_hit, total_found)>>
       IN  /\ below' = bl
           /\ IF CoverageFails(total_hit, total_found)
              THEN /\ stdout' = stdout \o body
                   /\ stderr' = Append(stderr, Out("FAILED", <<>>, total_hit, total_found))
                   /\ exitCode' = 1
              ELSE /\ stdout' = stdout \o body \o <<Out("PASSED", <<>>, 0, 0)>>
                   /\ stderr' = stderr
                   /\ exitCode' = 0
    /\ pc' = "done"
    /\ UNCHANGED anaVars
    /\ UNCHANGED <<fileExists, input, pos, handle, opens, total_found, total_hit,
                   per_file, current_file, file_found, file_hit>>

CovNext ==
    \/ MainMissing
    \/ ParseOpen
    \/ ParseLine
    \/ ParseRaise
    \/ ParseReturn
    \/ MainEmpty
    \/ MainReport

\* ------------------------------------------------------ analyze_packages.py
\* Entry names of packages/; "a" < "ab" < "b" < "c" as Python orders str.
Names == {<<"a">>, <<"a", "b">>, <<"b">>, <<"c">>}

Code(c) == CASE c = "a" -> 97 [] c = "b" -> 98 [] c = "c" -> 99

\* str.__lt__: by code point, a proper prefix first.
RECURSIVE StrLess(_, _)
StrLess(s, t) ==
    IF t = <<>> THEN FALSE
    ELSE IF s = <<>> THEN TRUE
    ELSE IF Code(Head(s)) # Code(Head(t)) THEN Code(Head(s)) < Code(Head(t))
    ELSE StrLess(Tail(s), Tail(t))

RECURSIVE InsertName(_, _)
InsertName(s, x) ==
    IF s = <<>> THEN <<x>>
    ELSE IF StrLess(x, Head(s)) THEN <<x>> \o s
    ELSE <<Head(s)>> \o InsertName(Tail(s), x)

\* The listing taken in the order the OS returned it.
SortedAsListed(s) == s

\* sorted(os.listdir(packages_dir))
RECURSIVE Sorted(_)
Sorted(s) ==
    IF s = <<>> THEN <<>>
    ELSE InsertName(Sorted(SubSeq(s, 1, Len(s) - 1)), s[Len(s)])

\* What <entry>/pubspec.yaml can be.
PubspecKinds == {"absent", "file", "directory"}

\* os.path.isfile(os.path.join(pkg_path, "pubspec.yaml"))
HasManifest(kind) == kind = "file"

\* Return codes of "dart analyze --fatal-infos".
ReturnCodes == {0, 1, 3}

\* result.returncode != 0
Failed(rc) == rc # 0

\* The directory listings: distinct names, in any order.
Listings ==
    {s \in BoundedSeq(Names, MaxEntries) :
        \A i, j \in 1..Len(s) : i # j => s[i] # s[j]}

AnaIdle ==
    /\ listing = <<>>
    /\ pubspec = [n \in Names |-> "absent"]
    /\ apc = "idle"
    /\ queue = <<>> /\ invoked = <<>> /\ returncodes = <<>> /\ failed = <<>>
    /\ astderr = <<>>
    /\ aexit = NoExit

CovIdle ==
    /\ fileExists = FALSE
    /\ input = <<>>
    /\ pc = "idle"
    /\ pos = 0
    /\ handle = "unopened"
    /\ opens = 0
    /\ total_found = 0 /\ total_hit = 0 /\ per_file = <<>>
    /\ current_file = <<>> /\ file_found = 0 /\ file_hit = 0
    /\ below = <<>>
    /\ stdout = <<>> /\ stderr = <<>>
    /\ exitCode = NoExit

AnaInit ==
    /\ listing \in Listings
    /\ pubspec \in [Names -> PubspecKinds]
    /\ \A n \in Names : (\A i \in 1..Len(listing) : listing[i] # n) => pubspec[n] = "absent"
    /\ apc = "main"
    /\ queue = <<>> /\ invoked = <<>> /\ returncodes = <<>> /\ failed = <<>>
    /\ astderr = <<>>
    /\ aexit = NoExit

\* main, lines 13-14: failed = [], and the sorted listing to iterate.
AnalyzeStart ==
    /\ apc = "main"
    /\ failed' = <<>>
    /\ queue' = Sorted(listing)
    /\ apc' = "loop"
    /\ UNCHANGED covVars
    /\ UNCHANGED <<listing, pubspec, invoked, returncodes, astderr, aexit>>

\* An iteration that takes "continue": no pubspec.yaml file in the entry.
AnalyzeSkip ==
    /\ apc = "loop"
    /\ queue # <<>>
    /\ ~HasManifest(pubspec[Head(queue)])
    /\ queue' = Tail(queue)
    /\ UNCHANGED covVars
    /\ UNCHANGED <<listing, pubspec, apc, invoked, returncodes, failed, astderr, aexit>>

\* An iteration that runs the analyzer on the entry and records a failure.
AnalyzeRun ==
    /\ apc = "loop"
    /\ queue # <<>>
    /\ HasManifest(pubspec[Head(queue)])
    /\ \E rc \in ReturnCodes :
          /\ invoked' = Append(invoked, Head(queue))
          /\ returncodes' = Append(returncodes, rc)
          /\ failed' = IF Failed(rc) THEN Append(failed, Head(queue)) ELSE failed
    /\ queue' = Tail(queue)
    /\ UNCHANGED covVars
    /\ UNCHANGED <<listing, pubspec, apc, astderr, aexit>>

\* main, lines 25-28.
AnalyzeFinish ==
    /\ apc = "loop"
    /\ queue = <<>>
    /\ IF failed # <<>>
       THEN /\ astderr' = Append(astderr, failed)
            /\ aexit' = 1
       ELSE /\ astderr' = astderr
            /\ aexit' = 0
    /\ apc' = "done"
    /\ UNCHANGED covVars
    /\ UNCHANGED <<listing, pubspec, queue, invoked, returncodes, failed>>

AnaNext ==
    \/ AnalyzeStart
    \/ AnalyzeSkip
    \/ AnalyzeRun
    \/ AnalyzeFinish

\* ---------------------------------------------------------- specifications
\* One run of tool/check_coverage.py.
Init == CovInit /\ AnaIdle
Next == CovNext
Spec == Init /\ [][Next]_vars

\* One run of tool/analyze_packages.py.
InitAnalyze == AnaInit /\ CovIdle
NextAnalyze == AnaNext
SpecAnalyze == InitAnalyze /\ [][NextAnalyze]_vars

\* =================================================================== claims
\* What the claims speak of, stated from the input text alone.
Consumed == SubSeq(input, 1, pos)

IsDirective(l, prefix) == StartsWith(Strip(l), prefix)

IsEndOfRecord(l) == Strip(l) = END_OF_RECORD

EorIdx(ls) == {i \in 1..Len(ls) : IsEndOfRecord(ls[i])}

\* The index of the k-th end_of_record line of ls (0 for k = 0).
KthEor(ls, k) ==
    IF k = 0 THEN 0
    ELSE CHOOSE i \in EorIdx(ls) : Cardinality({j \in EorIdx(ls) : j <= i}) = k

\* The last line with the prefix in the k-th window (0 when there is none).
LastIn(ls, k, prefix) ==
    LET cand == {i \in (KthEor(ls, k - 1) + 1)..(KthEor(ls, k) - 1) :
                    IsDirective(ls[i], prefix)}
    IN  IF cand = {} THEN 0 ELSE CHOOSE i \in cand : \A j \in cand : j <= i

TextAfterPrefix(l) == SubSeq(Strip(l), 4, Len(Strip(l)))

ExpectedRecord(ls, k) ==
    LET sf == LastIn(ls, k, SF)
        lh == LastIn(ls, k, LH)
        lf == LastIn(ls, k, LF)
    IN  << IF sf = 0 THEN <<>> ELSE TextAfterPrefix(ls[sf]),
           IF lh = 0 THEN 0 ELSE PyInt(TextAfterPrefix(ls[lh])).val,
           IF lf = 0 THEN 0 ELSE PyInt(TextAfterPrefix(ls[lf])).val >>

ExpectedRecords(ls) == [k \in 1..Cardinality(EorIdx(ls)) |-> ExpectedRecord(ls, k)]

RECURSIVE SumField(_, _)
SumField(recs, f) ==
    IF recs = <<>> THEN 0 ELSE recs[1][f] + SumField(Tail(recs), f)

Count(s, x) == Cardinality({i \in 1..Len(s) : s[i] = x})

\* The input cut right after its last end_of_record line.
Truncated(ls) ==
    IF EorIdx(ls) = {} THEN <<>>
    ELSE SubSeq(ls, 1, CHOOSE i \in EorIdx(ls) : \A j \in EorIdx(ls) : j <= i)

\* The file lines main printed, as (name, hit, found), in print order.
IsFileLine(o) == o.kind = "file"

Reported ==
    LET fl == SelectSeq(stdout, IsFileLine)
    IN  [i \in 1..Len(fl) |-> <<fl[i].name, fl[i].hit, fl[i].found>>]

ReportMade == pc = "done" /\ fileExists /\ total_found # 0

\* C1: for every input, after any prefix of lines and at return, parse_lcov
\* holds exactly one record per end_of_record line, in input order, the k-th
\* being the last SF/LH/LF payloads of the k-th window, or ""/0/0 where the
\* window has no such line; repeated paths give separate records and nothing
\* leaks from one window into the next.
C1_RecordsPerWindow ==
    pc \in {"parsing", "parsed", "done"} => per_file = ExpectedRecords(Consumed)

C1_Witness ==
    /\ pc = "parsed"
    /\ Len(per_file) = 2
    /\ per_file[1] = << <<"a">>, 39, 0 >>
    /\ per_file[2] = << <<>>, 0, 0 >>
    /\ \E i, j \in 1..Len(input) :
          i < j /\ j < KthEor(input, 1) /\ input[i] = LineLH38 /\ input[j] = LineLH39

\* C2: after any prefix of the input, and at return, total_found and total_hit
\* are the sums of lines_found and lines_hit over the records appended so far.
C2_TotalsAreSums ==
    pc \in {"parsing", "parsed", "done", "raised"} =>
        /\ total_found = SumField(per_file, 3)
        /\ total_hit = SumField(per_file, 2)

C2_Witness ==
    /\ pc = "parsing"
    /\ pos < Len(input)
    /\ Len(per_file) = 2
    /\ total_found # 0 /\ total_hit # 0

\* C3: main returns 0 exactly when the file exists, total_found > 0 and
\* total_hit / total_found * 100 >= MIN_COVERAGE; otherwise it returns 1.
C3_ExitZeroIff ==
    pc = "done" =>
        /\ exitCode \in {0, 1}
        /\ exitCode = 0 <=>
              /\ fileExists
              /\ total_found > 0
              /\ total_hit * 100 >= MIN_COVERAGE * total_found

C4_EveryBelowListed ==
    \A i \in 1..Len(per_file) :
        LET rec == per_file[i]
        IN  Count(below, rec) =
                IF rec[3] > 0 /\ rec[2] * 100 < MIN_COVERAGE * rec[3]
                THEN Count(per_file, rec) ELSE 0

C4_NothingElseListed == \A i \in 1..Len(below) : Count(per_file, below[i]) > 0

\* C4: the below-threshold list holds exactly the records with
\* lines_found > 0 and lines_hit / lines_found * 100 < MIN_COVERAGE, each as
\* often as it occurs among the records, and nothing else.
C4_BelowExactly == ReportMade => (C4_EveryBelowListed /\ C4_NothingElseListed)

C4_Witness ==
    /\ ReportMade
    /\ Len(below) = 2 /\ below[1] = below[2]
    /\ \E i \in 1..Len(per_file) : per_file[i][3] = 0

\* C5: the below-threshold files are printed in ascending order of percentage,
\* and records of equal percentage in the order their records were closed.
SamePct(x, y) == x[2] * y[3] = y[2] * x[3]

C5_AscendingStable ==
    ReportMade =>
        /\ Reported = below
        /\ \A i, j \in 1..Len(Reported) :
              i < j => Reported[i][2] * Reported[j][3] <= Reported[j][2] * Reported[i][3]
        /\ \A i \in 1..Len(Reported) :
              LET Tie(x) == x[3] > 0 /\ SamePct(x, Reported[i])
              IN  SelectSeq(Reported, Tie) = SelectSeq(per_file, Tie)

C5_Witness ==
    /\ ReportMade
    /\ Len(Reported) = 2
    /\ Reported[1] # Reported[2] /\ SamePct(Reported[1], Reported[2])
    /\ per_file[1] = Reported[1]

\* C6: parse_lcov fails, returning nothing, whenever the payload of an LF: or
\* LH: line is not a non-negative integer (a negative number, an empty payload).
NonNegIntText(t) == t # <<>> /\ \A i \in 1..Len(t) : t[i] \in Digits

BadCount(l) ==
    /\ IsDirective(l, LF) \/ IsDirective(l, LH)
    /\ ~NonNegIntText(TextAfterPrefix(l))

C6_BadCountFails ==
    (\E i \in 1..pos : BadCount(input[i])) => pc = "raised"

\* C7: with the coverage file missing, or total_found = 0 after parsing (no
\* end_of_record line at all, or every record with LF 0), main writes a
\* diagnostic to stderr, nothing to stdout, and returns 1.
EmptyCase ==
    \/ ~fileExists
    \/ total_found = 0
    \/ EorIdx(input) = {}
    \/ \A i \in 1..Len(per_file) : per_file[i][3] = 0

C7_EmptyIsFailure ==
    (pc = "done" /\ EmptyCase) => (stderr # <<>> /\ stdout = <<>> /\ exitCode = 1)

C7_Witness ==
    /\ pc = "done"
    /\ fileExists
    /\ Len(per_file) = 2
    /\ total_found = 0 /\ total_hit # 0

C8_HandleState ==
    /\ opens <= 1
    /\ (pc = "parsing") => (handle = "open" /\ opens = 1)
    /\ (pc \in {"parsed", "raised"} \/ (pc = "done" /\ fileExists)) =>
            (handle = "closed" /\ opens = 1)
    /\ (pc = "done" /\ ~fileExists) => (handle = "unopened" /\ opens = 0)

\* C8: the file is opened at most once, is open while lines are read, and is
\* closed on every way out of parse_lcov, the ValueError of int() included;
\* once it is closed no further line is read and it is not opened again.
C8_HandleScoped ==
    /\ []C8_HandleState
    /\ [][handle = "closed" => (pos' = pos /\ handle' = "closed" /\ opens' = opens)]_vars
    /\ [][pos' # pos => handle = "open"]_vars

C8_Witness ==
    /\ pc = "raised"
    /\ handle = "closed"
    /\ per_file # <<>>
    /\ pos < Len(input)

\* C10: lines after the last end_of_record change nothing: parse_lcov returns
\* the totals and records of the input cut after its last end_of_record, and
\* 0, 0 and no records when the input has no end_of_record.
C10_TrailingBlockIgnored ==
    pc \in {"parsed", "done"} =>
        LET recs == ExpectedRecords(Truncated(input))
        IN  /\ per_file = recs
            /\ total_hit = SumField(recs, 2)
            /\ total_found = SumField(recs, 3)
            /\ (EorIdx(input) = {}) =>
                   (per_file = <<>> /\ total_hit = 0 /\ total_found = 0)

C10_Witness ==
    /\ pc = "parsed"
    /\ per_file # <<>>
    /\ Len(Truncated(input)) < Len(input)
    /\ file_found # 0 /\ file_hit # 0 /\ current_file # <<>>

\* C9: the analyzer is run exactly once on each entry of packages/ holding a
\* pubspec.yaml file, in sorted name order, and on nothing else; a failure
\* does not stop the rest; failed lists exactly the names whose run returned
\* non-zero; main returns 1 exactly when failed is non-empty, else 0.
Rank(n) ==
    CASE n = <<"a">> -> 1 [] n = <<"a", "b">> -> 2 [] n = <<"b">> -> 3 [] n = <<"c">> -> 4

Entries == {listing[i] : i \in 1..Len(listing)}

FailedRun(i) == returncodes[i] # 0

C9_AnalyzeAll ==
    apc = "done" =>
        /\ \A i, j \in 1..Len(invoked) : i < j => Rank(invoked[i]) < Rank(invoked[j])
        /\ {invoked[i] : i \in 1..Len(invoked)} = {n \in Entries : pubspec[n] = "file"}
        /\ Len(returncodes) = Len(invoked)
        /\ LET idx == {i \in 1..Len(invoked) : FailedRun(i)}
           IN  /\ Len(failed) = Cardinality(idx)
               /\ {failed[i] : i \in 1..Len(failed)} = {invoked[i] : i \in idx}
               /\ \A i, j \in 1..Len(failed) : i < j => Rank(failed[i]) < Rank(failed[j])
        /\ aexit = (IF failed # <<>> THEN 1 ELSE 0)

C9_Witness ==
    /\ apc = "done"
    /\ Len(listing) = 3
    /\ Rank(listing[1]) > Rank(listing[2])
    /\ Len(invoked) = 2
    /\ failed = <<invoked[1]>>
    /\ \E n \in Entries : pubspec[n] = "directory"

====
